---- MODULE Spec2Model ----
(***************************************************************************)
(* Model of src/src/main.rs: a winit event loop that keeps a wgpu surface  *)
(* configuration in sync with the window size and, on every AboutToWait,   *)
(* acquires the surface texture, clears it and presents it.                *)
(*                                                                         *)
(* The program is single threaded: the closure given to event_loop.run is  *)
(* run to completion for one event at a time, so every event is one        *)
(* action.  The calls a handler makes on the window system, the GPU and    *)
(* the logger are recorded, in order, in the trace of the last handler.    *)
(***************************************************************************)
EXTENDS Integers, Sequences, FiniteSets, TLC

\* ---- bounds of the model ------------------------------------------------
MaxDim == 2
MaxFormats == 2
MaxEvents == 3

\* ---- inputs -------------------------------------------------------------
Dims == 0..MaxDim
Sizes == [width : Dims, height : Dims]
Formats == {"Bgra8Unorm", "Bgra8UnormSrgb", "Rgba8UnormSrgb"}
AlphaModeLists == {<<"Opaque">>, <<"Auto", "Opaque">>}
\* elapsed times of surface.get_current_texture(), in ms, at and over the timeout
ElapsedMs == {500, 501}
\* results of surface.get_current_texture(): Ok or a wgpu::SurfaceError
Outcomes == {"Ok", "Timeout", "Outdated", "Lost", "OutOfMemory"}

\* the lists of supported formats: not empty, no format twice
FormatLists ==
    {fs \in UNION {[1..n -> Formats] : n \in 1..MaxFormats} :
        \A i, j \in 1..Len(fs) : fs[i] = fs[j] => i = j}

\* TextureFormat::is_srgb
is_srgb(f) == f \in {"Bgra8UnormSrgb", "Rgba8UnormSrgb"}

\* ---- the calls a handler makes ------------------------------------------
\* One entry of a handler's trace: the call and up to two numeric arguments.
Call(op, a, b) == [op |-> op, a |-> a, b |-> b]

RECURSIVE Count(_, _)
Count(tr, op) ==
    IF tr = <<>> THEN 0
    ELSE (IF Head(tr).op = op THEN 1 ELSE 0) + Count(Tail(tr), op)

\* index of the first entry of tr with the given op, 0 if there is none
RECURSIVE IndexFrom(_, _, _)
IndexFrom(tr, op, i) ==
    IF i > Len(tr) THEN 0
    ELSE IF tr[i].op = op THEN i
    ELSE IndexFrom(tr, op, i + 1)

IndexOf(tr, op) == IndexFrom(tr, op, 1)

\* number of acquired surface textures outstanding after the calls of tr,
\* starting from h: get_current_texture returning Ok (a = 1) yields one,
\* SurfaceTexture::present consumes one
RECURSIVE HeldAfter(_, _)
HeldAfter(h, tr) ==
    IF tr = <<>> THEN h
    ELSE HeldAfter(
            h + (IF Head(tr).op = "get_current_texture" /\ Head(tr).a = 1 THEN 1 ELSE 0)
              - (IF Head(tr).op = "present" THEN 1 ELSE 0),
            Tail(tr))

\* the largest number of surface textures outstanding at any point of tr
RECURSIVE MaxHeld(_, _)
MaxHeld(h, tr) ==
    IF tr = <<>> THEN h
    ELSE LET rest == MaxHeld(HeldAfter(h, <<Head(tr)>>), Tail(tr))
         IN  IF h > rest THEN h ELSE rest

\* ---- state --------------------------------------------------------------
VARIABLES
    loop_state,    \* "Running" until target.exit() is called, then "Exit"
    surface_caps,  \* surface.get_capabilities(&adapter)
    config,        \* the SurfaceConfiguration owned by main
    surface,       \* the configuration last passed to surface.configure
    inner_size,    \* window.inner_size()
    held,          \* acquired surface textures not yet presented or dropped
    nEvents,       \* number of events the closure has handled
    last,          \* the last event handled and what its handler did
    last_valid_size \* history: the last size with no zero dimension passed to
                   \* resize_surface, the window's first size before any

vars == <<loop_state, surface_caps, config, surface, inner_size, held, nEvents,
          last, last_valid_size>>

\* ---- startup (main, up to event_loop.run) ------------------------------
\* formats.iter().copied().filter(|f| f.is_srgb()).next().unwrap_or(formats[0])
RECURSIVE first_srgb(_)
first_srgb(fs) ==
    IF fs = <<>> THEN "None"
    ELSE IF is_srgb(Head(fs)) THEN Head(fs)
    ELSE first_srgb(Tail(fs))

surface_format_first_listed(caps) ==
    caps.formats[1]

surface_format(caps) ==
    IF first_srgb(caps.formats) # "None" THEN first_srgb(caps.formats)
    ELSE caps.formats[1]

initial_config(caps, size) ==
    [usage |-> "RENDER_ATTACHMENT",
     format |-> surface_format(caps),
     width |-> size.width,
     height |-> size.height,
     present_mode |-> "AutoVsync",
     desired_maximum_frame_latency |-> 2,
     alpha_mode |-> caps.alpha_modes[1]]

\* ---- resize_surface -----------------------------------------------------
\* The result is the configuration after the call, the configuration the
\* surface has after the call, and the calls made.
resize_surface_swapped(surf, size, cfg) ==
    IF size.width > 0 /\ size.height > 0
    THEN LET c == [cfg EXCEPT !.width = size.height, !.height = size.width]
         IN  [config |-> c, surface |-> c,
              trace |-> <<Call("resize_surface", size.width, size.height),
                          Call("configure", c.width, c.height),
                          Call("info!", c.width, c.height)>>]
    ELSE [config |-> cfg, surface |-> surf,
          trace |-> <<Call("resize_surface", size.width, size.height)>>]

resize_surface_either(surf, size, cfg) ==
    IF size.width > 0 \/ size.height > 0
    THEN LET c == [cfg EXCEPT !.width = size.width, !.height = size.height]
         IN  [config |-> c, surface |-> c,
              trace |-> <<Call("resize_surface", size.width, size.height),
                          Call("configure", c.width, c.height),
                          Call("info!", c.width, c.height)>>]
    ELSE [config |-> cfg, surface |-> surf,
          trace |-> <<Call("resize_surface", size.width, size.height)>>]

resize_surface_resets_mode(surf, size, cfg) ==
    IF size.width > 0 /\ size.height > 0
    THEN LET c == [cfg EXCEPT !.width = size.width, !.height = size.height,
                              !.present_mode = "Fifo"]
         IN  [config |-> c, surface |-> c,
              trace |-> <<Call("resize_surface", size.width, size.height),
                          Call("configure", c.width, c.height),
                          Call("info!", c.width, c.height)>>]
    ELSE [config |-> cfg, surface |-> surf,
          trace |-> <<Call("resize_surface", size.width, size.height)>>]

resize_surface_width_only(surf, size, cfg) ==
    IF size.width > 0 /\ size.height > 0
    THEN LET c == [cfg EXCEPT !.width = size.width]
         IN  [config |-> c, surface |-> c,
              trace |-> <<Call("resize_surface", size.width, size.height),
                          Call("configure", c.width, c.height),
                          Call("info!", c.width, c.height)>>]
    ELSE [config |-> cfg, surface |-> surf,
          trace |-> <<Call("resize_surface", size.width, size.height)>>]

resize_surface_no_configure(surf, size, cfg) ==
    IF size.width > 0 /\ size.height > 0
    THEN LET c == [cfg EXCEPT !.width = size.width, !.height = size.height]
         IN  [config |-> c, surface |-> surf,
              trace |-> <<Call("resize_surface", size.width, size.height),
                          Call("info!", c.width, c.height)>>]
    ELSE [config |-> cfg, surface |-> surf,
          trace |-> <<Call("resize_surface", size.width, size.height)>>]

resize_surface(surf, size, cfg) ==
    IF size.width > 0 /\ size.height > 0
    THEN LET c == [cfg EXCEPT !.width = size.width, !.height = size.height]
         IN  [config |-> c, surface |-> c,
              trace |-> <<Call("resize_surface", size.width, size.height),
                          Call("configure", c.width, c.height),
                          Call("info!", c.width, c.height)>>]
    ELSE [config |-> cfg, surface |-> surf,
          trace |-> <<Call("resize_surface", size.width, size.height)>>]

\* ---- render -------------------------------------------------------------
\* Duration::from_millis(500)
timeout == 500

\* the calls of render after a successful get_current_texture
frame_calls(elapsed) ==
    (IF elapsed > timeout
        THEN <<Call("error!:Get current texture took", elapsed, 0)>>
        ELSE <<>>)
    \o <<Call("create_view", 0, 0),
         Call("create_command_encoder", 0, 0),
         Call("begin_render_pass", 0, 0),
         Call("end_render_pass", 0, 0),
         Call("finish", 0, 0),
         Call("submit", 1, 0),
         Call("trace!:Present", 0, 0),
         Call("present", 0, 0)>>

\* The result is Ok or the SurfaceError, and the calls made.
render_no_present(outcome, elapsed) ==
    IF outcome # "Ok"
    THEN [result |-> outcome,
          trace |-> <<Call("render", 0, 0), Call("get_current_texture", 0, 0)>>]
    ELSE [result |-> "Ok",
          trace |-> <<Call("render", 0, 0), Call("get_current_texture", 1, 0)>>
                    \o SubSeq(frame_calls(elapsed), 1, Len(frame_calls(elapsed)) - 1)]

render_submit_twice(outcome, elapsed) ==
    IF outcome # "Ok"
    THEN [result |-> outcome,
          trace |-> <<Call("render", 0, 0), Call("get_current_texture", 0, 0)>>]
    ELSE [result |-> "Ok",
          trace |-> <<Call("render", 0, 0), Call("get_current_texture", 1, 0),
                      Call("submit", 1, 0)>>
                    \o frame_calls(elapsed)]

render_abort_when_slow(outcome, elapsed) ==
    IF outcome # "Ok" \/ elapsed > timeout
    THEN [result |-> IF outcome # "Ok" THEN outcome ELSE "Timeout",
          trace |-> <<Call("render", 0, 0), Call("get_current_texture", 0, 0)>>]
    ELSE [result |-> "Ok",
          trace |-> <<Call("render", 0, 0), Call("get_current_texture", 1, 0)>>
                    \o frame_calls(elapsed)]

render_present_first(outcome, elapsed) ==
    IF outcome # "Ok"
    THEN [result |-> outcome,
          trace |-> <<Call("render", 0, 0), Call("get_current_texture", 0, 0)>>]
    ELSE [result |-> "Ok",
          trace |-> <<Call("render", 0, 0), Call("get_current_texture", 1, 0)>>
                    \o SelectSeq(frame_calls(elapsed), LAMBDA c : c.op = "trace!:Present")
                    \o SelectSeq(frame_calls(elapsed), LAMBDA c : c.op = "present")
                    \o SelectSeq(frame_calls(elapsed),
                                 LAMBDA c : c.op \notin {"trace!:Present", "present"})]

render(outcome, elapsed) ==
    IF outcome # "Ok"
    THEN [result |-> outcome,
          trace |-> <<Call("render", 0, 0), Call("get_current_texture", 0, 0)>>]
    ELSE [result |-> "Ok",
          trace |-> <<Call("render", 0, 0), Call("get_current_texture", 1, 0)>>
                    \o frame_calls(elapsed)]

\* ---- the closure given to event_loop.run --------------------------------
\* What a handler leaves behind: the configuration, the configuration of the
\* surface, whether target.exit() was called, what render returned ("None"
\* when render was not called), and the calls made.
Effect(cfg, surf, exit, res, tr) ==
    [config |-> cfg, surface |-> surf, exit |-> exit, result |-> res, trace |-> tr]

NoSize == [width |-> 0, height |-> 0]

\* the events winit hands to the closure
WindowEvent(own, wevent, size) ==
    [kind |-> "WindowEvent", own |-> own, wevent |-> wevent, size |-> size,
     outcome |-> "None", elapsed |-> 0]

AboutToWaitEvent(outcome, elapsed) ==
    [kind |-> "AboutToWait", own |-> FALSE, wevent |-> "None", size |-> NoSize,
     outcome |-> outcome, elapsed |-> elapsed]

OtherEventOf(kind) ==
    [kind |-> kind, own |-> FALSE, wevent |-> "None", size |-> NoSize,
     outcome |-> "None", elapsed |-> 0]

\* Event::WindowEvent { ref event, window_id } if window_id == window.id()
on_window_event_any_window(surf, cfg, own, wevent, size) ==
    IF wevent = "CloseRequested"
    THEN Effect(cfg, surf, TRUE, "None", <<Call("exit", 0, 0)>>)
    ELSE IF own /\ wevent = "Resized"
    THEN LET z == resize_surface(surf, size, cfg)
         IN  Effect(z.config, z.surface, FALSE, "None", z.trace)
    ELSE Effect(cfg, surf, FALSE, "None", <<>>)

on_window_event_close_ignored(surf, cfg, own, wevent, size) ==
    IF own /\ wevent = "Resized"
    THEN LET z == resize_surface(surf, size, cfg)
         IN  Effect(z.config, z.surface, FALSE, "None", z.trace)
    ELSE Effect(cfg, surf, FALSE, "None", <<>>)

on_window_event_foreign_resize(surf, cfg, own, wevent, size) ==
    IF own /\ wevent = "CloseRequested"
    THEN Effect(cfg, surf, TRUE, "None", <<Call("exit", 0, 0)>>)
    ELSE IF wevent = "Resized"
    THEN LET z == resize_surface(surf, size, cfg)
         IN  Effect(z.config, z.surface, FALSE, "None", z.trace)
    ELSE Effect(cfg, surf, FALSE, "None", <<>>)

on_window_event(surf, cfg, own, wevent, size) ==
    IF own /\ wevent = "CloseRequested"
    THEN Effect(cfg, surf, TRUE, "None", <<Call("exit", 0, 0)>>)
    ELSE IF own /\ wevent = "Resized"
    THEN LET z == resize_surface(surf, size, cfg)
         IN  Effect(z.config, z.surface, FALSE, "None", z.trace)
    ELSE Effect(cfg, surf, FALSE, "None", <<>>)

\* Event::AboutToWait => match render(&surface, &device, &queue)
on_about_to_wait_stale_size(surf, cfg, inner, outcome, elapsed) ==
    LET r == render(outcome, elapsed)
    IN  IF r.result = "Ok"
        THEN Effect(cfg, surf, FALSE, r.result, r.trace)
        ELSE IF r.result = "Lost"
        THEN LET z == resize_surface(surf, [width |-> cfg.width, height |-> cfg.height], cfg)
             IN  Effect(z.config, z.surface, FALSE, r.result, r.trace \o z.trace)
        ELSE IF r.result = "OutOfMemory"
        THEN Effect(cfg, surf, TRUE, r.result, r.trace \o <<Call("exit", 0, 0)>>)
        ELSE Effect(cfg, surf, FALSE, r.result, r.trace \o <<Call("error!:Surface error", 0, 0)>>)

on_about_to_wait_oom_logged(surf, cfg, inner, outcome, elapsed) ==
    LET r == render(outcome, elapsed)
    IN  IF r.result = "Ok"
        THEN Effect(cfg, surf, FALSE, r.result, r.trace)
        ELSE IF r.result = "Lost"
        THEN LET z == resize_surface(surf, inner, cfg)
             IN  Effect(z.config, z.surface, FALSE, r.result, r.trace \o z.trace)
        ELSE Effect(cfg, surf, FALSE, r.result, r.trace \o <<Call("error!:Surface error", 0, 0)>>)

on_about_to_wait_retry(surf, cfg, inner, outcome, elapsed) ==
    LET r == render(outcome, elapsed)
    IN  IF r.result = "Ok"
        THEN Effect(cfg, surf, FALSE, r.result, r.trace)
        ELSE IF r.result = "Lost"
        THEN LET z == resize_surface(surf, inner, cfg)
             IN  Effect(z.config, z.surface, FALSE, r.result, r.trace \o z.trace)
        ELSE IF r.result = "OutOfMemory"
        THEN Effect(cfg, surf, TRUE, r.result, r.trace \o <<Call("exit", 0, 0)>>)
        ELSE Effect(cfg, surf, FALSE, r.result,
                    r.trace \o <<Call("error!:Surface error", 0, 0)>> \o r.trace)

on_about_to_wait_lost_configures(surf, cfg, inner, outcome, elapsed) ==
    LET r == render(outcome, elapsed)
    IN  IF r.result = "Ok"
        THEN Effect(cfg, surf, FALSE, r.result, r.trace)
        ELSE IF r.result = "Lost"
        THEN LET c == [cfg EXCEPT !.width = inner.width, !.height = inner.height]
             IN  Effect(c, c, FALSE, r.result,
                        r.trace \o <<Call("configure", c.width, c.height)>>)
        ELSE IF r.result = "OutOfMemory"
        THEN Effect(cfg, surf, TRUE, r.result, r.trace \o <<Call("exit", 0, 0)>>)
        ELSE Effect(cfg, surf, FALSE, r.result, r.trace \o <<Call("error!:Surface error", 0, 0)>>)

on_about_to_wait(surf, cfg, inner, outcome, elapsed) ==
    LET r == render(outcome, elapsed)
    IN  IF r.result = "Ok"
        THEN Effect(cfg, surf, FALSE, r.result, r.trace)
        ELSE IF r.result = "Lost"
        THEN LET z == resize_surface(surf, inner, cfg)
             IN  Effect(z.config, z.surface, FALSE, r.result, r.trace \o z.trace)
        ELSE IF r.result = "OutOfMemory"
        THEN Effect(cfg, surf, TRUE, r.result, r.trace \o <<Call("exit", 0, 0)>>)
        ELSE Effect(cfg, surf, FALSE, r.result, r.trace \o <<Call("error!:Surface error", 0, 0)>>)

\* match event { WindowEvent .. if own window, AboutToWait, _ => {} }
closure(ev, surf, cfg, inner) ==
    IF ev.kind = "WindowEvent"
    THEN on_window_event(surf, cfg, ev.own, ev.wevent, ev.size)
    ELSE IF ev.kind = "AboutToWait"
    THEN on_about_to_wait(surf, cfg, inner, ev.outcome, ev.elapsed)
    ELSE Effect(cfg, surf, FALSE, "None", <<>>)

\* ---- the state machine --------------------------------------------------
\* What main finds at startup: the capabilities of the surface and the size
\* of the new window.  One of the three varies and the others are the usual
\* ones: the supported formats, the supported alpha modes, or the size of
\* the window (a zero dimension included, which PhysicalSize<u32> allows).
UsualFormats == <<"Bgra8Unorm", "Bgra8UnormSrgb">>
UsualAlphaModes == <<"Opaque">>
UsualSize == [width |-> 2, height |-> 1]
StartupInputs ==
    {[caps |-> [formats |-> fs, alpha_modes |-> UsualAlphaModes], size |-> UsualSize] :
        fs \in FormatLists}
    \cup {[caps |-> [formats |-> UsualFormats, alpha_modes |-> am], size |-> UsualSize] :
        am \in AlphaModeLists}
    \cup {[caps |-> [formats |-> UsualFormats, alpha_modes |-> UsualAlphaModes], size |-> sz] :
        sz \in Sizes}

Init ==
    /\ loop_state = "Running"
    /\ \E inp \in StartupInputs :
          /\ surface_caps = inp.caps
          /\ inner_size = inp.size
    /\ config = initial_config(surface_caps, inner_size)
    /\ surface = config
    /\ held = 0
    /\ nEvents = 0
    /\ last_valid_size = inner_size
    /\ last = [event |-> OtherEventOf("Startup"), exit |-> FALSE,
               result |-> "None",
               trace |-> <<Call("configure", config.width, config.height)>>]

\* event_loop.run calls the closure with one event, to completion; once
\* target.exit() has been called the loop ends and calls it no more.
\* inner is what window.inner_size() returns during the handler.
Dispatch(ev, inner) ==
    /\ loop_state = "Running"
    /\ nEvents < MaxEvents
    /\ LET r == closure(ev, surface, config, inner)
       IN  /\ config' = r.config
           /\ surface' = r.surface
           /\ loop_state' = IF r.exit THEN "Exit" ELSE "Running"
           /\ held' = HeldAfter(held, r.trace)
           /\ last' = [event |-> ev, exit |-> r.exit, result |-> r.result,
                       trace |-> r.trace]
           /\ last_valid_size' =
                 LET valid == {c \in {r.trace[i] : i \in 1..Len(r.trace)} :
                                 c.op = "resize_surface" /\ c.a > 0 /\ c.b > 0}
                 IN  IF valid = {} THEN last_valid_size
                     ELSE LET c == CHOOSE c \in valid : TRUE
                          IN  [width |-> c.a, height |-> c.b]
    /\ inner_size' = inner
    /\ nEvents' = nEvents + 1
    /\ UNCHANGED surface_caps

\* WindowEvent::CloseRequested, for this window or another one
CloseRequested ==
    \E own \in BOOLEAN :
        Dispatch(WindowEvent(own, "CloseRequested", NoSize), inner_size)

\* WindowEvent::Resized(size): this window now has that size, or another
\* window was resized
Resized ==
    \E own \in BOOLEAN, size \in Sizes :
        Dispatch(WindowEvent(own, "Resized", size),
                 IF own THEN size ELSE inner_size)

\* any other WindowEvent
OtherWindowEvent ==
    \E own \in BOOLEAN :
        Dispatch(WindowEvent(own, "Focused", NoSize), inner_size)

\* Event::AboutToWait: get_current_texture returns outcome after elapsed ms.
\* Only the Lost arm reads window.inner_size(); the window system may have
\* changed the window's size since the last Resized event was handled.
AboutToWait ==
    \E outcome \in Outcomes, elapsed \in ElapsedMs :
        \E inner \in (IF outcome = "Lost" THEN Sizes ELSE {inner_size}) :
            Dispatch(AboutToWaitEvent(outcome, elapsed), inner)

\* any other Event
OtherEvent ==
    Dispatch(OtherEventOf("NewEvents"), inner_size)

Next ==
    \/ CloseRequested
    \/ Resized
    \/ OtherWindowEvent
    \/ AboutToWait
    \/ OtherEvent

Spec == Init /\ [][Next]_vars

\* ---- what the last handler was, for the properties ----------------------
LastResized == last.event.kind = "WindowEvent" /\ last.event.wevent = "Resized"
LastOwnResized == LastResized /\ last.event.own
LastTick == last.event.kind = "AboutToWait"
LastClose == last.event.kind = "WindowEvent" /\ last.event.wevent = "CloseRequested"
Positive(size) == size.width > 0 /\ size.height > 0
SizeOf(cfg) == [width |-> cfg.width, height |-> cfg.height]

TypeOK ==
    /\ loop_state \in {"Running", "Exit"}
    /\ SizeOf(config) \in Sizes
    /\ inner_size \in Sizes
    /\ held \in 0..1
    /\ nEvents \in 0..MaxEvents
    /\ last_valid_size \in Sizes

\* the resize_surface calls of the last handler, as the sizes passed
ResizeCalls ==
    {[width |-> last.trace[i].a, height |-> last.trace[i].b] :
        i \in {j \in 1..Len(last.trace) : last.trace[j].op = "resize_surface"}}

LastTickWith(outcome) == LastTick /\ last.event.outcome = outcome

\* ---- C1 -----------------------------------------------------------------
\* C1: whenever resize_surface has run on a size with width > 0 and
\* height > 0 (from a Resized event or from the Lost arm), the stored
\* configuration's width and height equal that size and surface.configure
\* was called exactly once by the handler.
C1_ValidResizeApplied ==
    \A size \in ResizeCalls :
        Positive(size) =>
            /\ SizeOf(config) = size
            /\ Count(last.trace, "configure") = 1

C1_Witness ==
    /\ LastOwnResized
    /\ last.event.size = [width |-> 2, height |-> 1]
    /\ SizeOf(config) = [width |-> 2, height |-> 1]
    /\ Count(last.trace, "configure") = 1

\* ---- C2 -----------------------------------------------------------------
\* C2: a handler that runs resize_surface on a size with width = 0 or
\* height = 0 leaves the stored configuration and the surface's
\* configuration as they were and does not call surface.configure.
C2_ZeroResizeIsNoOp ==
    [][(\E i \in 1..Len(last'.trace) :
            /\ last'.trace[i].op = "resize_surface"
            /\ (last'.trace[i].a = 0 \/ last'.trace[i].b = 0))
        => /\ config' = config
           /\ surface' = surface
           /\ Count(last'.trace, "configure") = 0]_vars

C2_Witness ==
    /\ LastOwnResized
    /\ last.event.size = [width |-> 2, height |-> 0]
    /\ Positive(SizeOf(config))
    /\ Count(last.trace, "configure") = 0

\* ---- C3 -----------------------------------------------------------------
\* C3: every configuration passed to surface.configure, the one of startup
\* included, has width > 0 and height > 0.
C3_AppliedConfigNonZero ==
    /\ surface.width > 0
    /\ surface.height > 0

\* ---- C4 -----------------------------------------------------------------
\* C4: an AboutToWait whose get_current_texture succeeds submits exactly one
\* command buffer (one submit call, of one buffer) and presents exactly
\* once; render returns Ok and the loop stays Running.
C4_SuccessfulFrame ==
    LastTickWith("Ok") =>
        /\ Count(last.trace, "submit") = 1
        /\ last.trace[IndexOf(last.trace, "submit")].a = 1
        /\ Count(last.trace, "present") = 1
        /\ last.result = "Ok"
        /\ ~last.exit
        /\ loop_state = "Running"

C4_Witness ==
    /\ LastTickWith("Ok")
    /\ Count(last.trace, "get_current_texture") = 1
    /\ Count(last.trace, "submit") = 1
    /\ Count(last.trace, "present") = 1
    /\ loop_state = "Running"

\* ---- C5 -----------------------------------------------------------------
\* C5: an AboutToWait whose get_current_texture returns Lost calls
\* resize_surface once, with window.inner_size(), submits nothing, presents
\* nothing, and the loop stays Running.
C5_LostRecovers ==
    LastTickWith("Lost") =>
        /\ Count(last.trace, "resize_surface") = 1
        /\ ResizeCalls = {inner_size}
        /\ Count(last.trace, "submit") = 0
        /\ Count(last.trace, "present") = 0
        /\ loop_state = "Running"

C5_Witness ==
    /\ LastTickWith("Lost")
    /\ Positive(inner_size)
    /\ ResizeCalls = {inner_size}
    /\ SizeOf(config) = inner_size
    /\ Count(last.trace, "configure") = 1
    /\ nEvents >= 2

\* ---- C6 -----------------------------------------------------------------
\* C6: an AboutToWait whose get_current_texture returns Outdated is handled
\* like Lost: resize_surface is called once with window.inner_size(),
\* nothing is submitted, and the loop stays Running.
C6_OutdatedRecovers ==
    LastTickWith("Outdated") =>
        /\ Count(last.trace, "resize_surface") = 1
        /\ ResizeCalls = {inner_size}
        /\ Count(last.trace, "submit") = 0
        /\ loop_state = "Running"

\* ---- C7 -----------------------------------------------------------------
\* C7: an AboutToWait whose get_current_texture returns OutOfMemory takes
\* the loop to Exit, and from Exit no handler runs any more: no event is
\* counted, no call is made, and the surface and the held images stay.
C7_OutOfMemoryExits ==
    [][/\ (last'.event.kind = "AboutToWait" /\ last'.event.outcome = "OutOfMemory"
              => loop_state' = "Exit")
       /\ (loop_state = "Exit"
              => /\ loop_state' = "Exit"
                 /\ nEvents' = nEvents
                 /\ last' = last
                 /\ surface' = surface
                 /\ config' = config
                 /\ held' = held)]_vars

C7_Witness ==
    /\ LastTickWith("OutOfMemory")
    /\ loop_state = "Exit"
    /\ Count(last.trace, "submit") = 0
    /\ nEvents < MaxEvents

\* ---- C8 -----------------------------------------------------------------
\* C8: the loop goes from Running to Exit only in the handler of a
\* CloseRequested for this window or of an AboutToWait whose
\* get_current_texture returned OutOfMemory.
C8_ExitOnlyByCloseOrOom ==
    [][loop_state = "Running" /\ loop_state' = "Exit"
        => \/ /\ last'.event.kind = "WindowEvent"
              /\ last'.event.wevent = "CloseRequested"
              /\ last'.event.own
           \/ /\ last'.event.kind = "AboutToWait"
              /\ last'.event.outcome = "OutOfMemory"]_vars

C8_Witness ==
    /\ loop_state = "Exit"
    /\ LastClose
    /\ last.event.own
    /\ nEvents >= 2

\* ---- C9 -----------------------------------------------------------------
\* C9: after a CloseRequested the loop is in Exit exactly when the event's
\* window id was this window's.
C9_CloseMatchesWindow ==
    LastClose => (loop_state = "Exit" <=> last.event.own)

C9_Witness ==
    /\ LastClose
    /\ ~last.event.own
    /\ loop_state = "Running"
    /\ last.trace = <<>>

\* ---- C10 ----------------------------------------------------------------
\* C10: between handlers no acquired surface texture is outstanding, and
\* during a handler at most one is.
C10_ImageNotRetained ==
    /\ held = 0
    /\ MaxHeld(0, last.trace) <= 1

C10_Witness ==
    /\ LastTickWith("Ok")
    /\ MaxHeld(0, last.trace) = 1
    /\ held = 0
    /\ nEvents >= 2

\* ---- C11 ----------------------------------------------------------------
\* C11: an AboutToWait whose get_current_texture fails with Timeout calls
\* get_current_texture once, submits nothing, presents nothing, does not
\* call resize_surface or surface.configure, leaves the stored
\* configuration and the surface's configuration as they were, and the
\* loop stays Running.
C11_OtherErrorSkipsFrame ==
    [][last'.event.kind = "AboutToWait" /\ last'.event.outcome = "Timeout"
        => /\ Count(last'.trace, "get_current_texture") = 1
           /\ Count(last'.trace, "submit") = 0
           /\ Count(last'.trace, "present") = 0
           /\ Count(last'.trace, "resize_surface") = 0
           /\ Count(last'.trace, "configure") = 0
           /\ config' = config
           /\ surface' = surface
           /\ loop_state' = "Running"]_vars

C11_Witness ==
    /\ LastTickWith("Timeout")
    /\ Count(last.trace, "get_current_texture") = 1
    /\ Count(last.trace, "error!:Surface error") = 1
    /\ loop_state = "Running"
    /\ nEvents >= 2

\* ---- C12 ----------------------------------------------------------------
\* an event the closure has no arm for: a WindowEvent of another window, a
\* WindowEvent other than CloseRequested and Resized, an Event other than
\* WindowEvent and AboutToWait
Ignored(ev) ==
    \/ /\ ev.kind = "WindowEvent"
       /\ (~ev.own \/ ev.wevent \notin {"CloseRequested", "Resized"})
    \/ ev.kind \notin {"WindowEvent", "AboutToWait"}

\* C12: the handler of an ignored event makes no call and changes neither
\* the stored configuration, the surface's configuration, the held images
\* nor the loop's state.
C12_IgnoredEvents ==
    [][Ignored(last'.event)
        => /\ last'.trace = <<>>
           /\ ~last'.exit
           /\ config' = config
           /\ surface' = surface
           /\ held' = held
           /\ loop_state' = loop_state]_vars

C12_Witness ==
    /\ LastResized
    /\ ~last.event.own
    /\ Positive(last.event.size)
    /\ last.event.size # SizeOf(config)
    /\ last.trace = <<>>
    /\ loop_state = "Running"

\* ---- C13 ----------------------------------------------------------------
\* the entries of a trace that are log macros
LogOps ==
    {"info!", "error!:Get current texture took", "error!:Surface error",
     "trace!:Present"}

\* the log entries that report how long get_current_texture took, at
\* warning level or a more severe one (the code logs it with error!)
LatencyOps == {"warn!:Get current texture took", "error!:Get current texture took"}

\* C13: in every AboutToWait whose get_current_texture took longer than
\* the 500 ms timeout, whatever it returned, a log entry of warning level
\* (or above) with the elapsed milliseconds is emitted.
C13_SlowAcquisitionLogged ==
    LastTick /\ last.event.elapsed > timeout =>
        \E i \in 1..Len(last.trace) :
            /\ last.trace[i].op \in LatencyOps
            /\ last.trace[i].a = last.event.elapsed

\* ---- C14 ----------------------------------------------------------------
\* a trace without its log entries
NonLog(tr) == SelectSeq(tr, LAMBDA c : c.op \notin LogOps)

\* C14: from every reachable state, for the same result of
\* get_current_texture and the same window size, the AboutToWait handler
\* with an elapsed time over the timeout and the one with an elapsed time
\* not over it make the same calls apart from log entries and leave the
\* same stored configuration, surface configuration, result and exit
\* decision; and a slow acquisition is made once and its result is the one
\* render returns.
C14_TimeoutObservabilityOnly ==
    /\ \A outcome \in Outcomes, inner \in Sizes :
         \A slow \in {e \in ElapsedMs : e > timeout},
            fast \in {e \in ElapsedMs : ~(e > timeout)} :
             LET a == closure(AboutToWaitEvent(outcome, slow), surface, config, inner)
                 b == closure(AboutToWaitEvent(outcome, fast), surface, config, inner)
             IN  /\ NonLog(a.trace) = NonLog(b.trace)
                 /\ a.config = b.config
                 /\ a.surface = b.surface
                 /\ a.result = b.result
                 /\ a.exit = b.exit
    /\ (LastTick /\ last.event.elapsed > timeout
          => /\ Count(last.trace, "get_current_texture") = 1
             /\ last.result = last.event.outcome)

C14_Witness ==
    /\ LastTickWith("Ok")
    /\ last.event.elapsed = 501
    /\ Count(last.trace, "error!:Get current texture took") = 1
    /\ Count(last.trace, "submit") = 1
    /\ last.result = "Ok"

\* ---- C15 ----------------------------------------------------------------
\* the fields of a configuration other than width and height
OtherFields(cfg) ==
    [usage |-> cfg.usage, format |-> cfg.format, present_mode |-> cfg.present_mode,
     desired_maximum_frame_latency |-> cfg.desired_maximum_frame_latency,
     alpha_mode |-> cfg.alpha_mode]

\* C15: in every state the stored configuration's usage, format, present
\* mode, frame latency and alpha mode are the ones set at startup, and a
\* handler changes the stored configuration only if it called
\* resize_surface (so render alone never does).
C15_OnlyResizeMutatesSize ==
    /\ [](OtherFields(config) = OtherFields(initial_config(surface_caps, NoSize)))
    /\ [][config' # config => Count(last'.trace, "resize_surface") = 1]_vars

C15_Witness ==
    /\ LastOwnResized
    /\ SizeOf(config) = [width |-> 1, height |-> 2]
    /\ surface_caps.formats = <<"Rgba8UnormSrgb">>
    /\ config.format = "Rgba8UnormSrgb"
    /\ config.present_mode = "AutoVsync"

\* ---- C16 ----------------------------------------------------------------
\* C16: in an AboutToWait whose get_current_texture succeeds the calls come
\* in the order get_current_texture, begin_render_pass, end of the render
\* pass, finish, submit, present, each once; and in every handler a present
\* is preceded by a submit.
C16_FrameOrder ==
    /\ LastTickWith("Ok") =>
          /\ \A op \in {"get_current_texture", "begin_render_pass", "end_render_pass",
                        "finish", "submit", "present"} :
                Count(last.trace, op) = 1
          /\ IndexOf(last.trace, "get_current_texture") < IndexOf(last.trace, "begin_render_pass")
          /\ IndexOf(last.trace, "begin_render_pass") < IndexOf(last.trace, "end_render_pass")
          /\ IndexOf(last.trace, "end_render_pass") < IndexOf(last.trace, "finish")
          /\ IndexOf(last.trace, "finish") < IndexOf(last.trace, "submit")
          /\ IndexOf(last.trace, "submit") < IndexOf(last.trace, "present")
    /\ Count(last.trace, "present") > 0 =>
          /\ Count(last.trace, "submit") > 0
          /\ IndexOf(last.trace, "submit") < IndexOf(last.trace, "present")

C16_Witness ==
    /\ LastTickWith("Ok")
    /\ IndexOf(last.trace, "submit") > IndexOf(last.trace, "end_render_pass")
    /\ IndexOf(last.trace, "present") = IndexOf(last.trace, "submit") + 2
    /\ IndexOf(last.trace, "present") = Len(last.trace)

\* ---- C17 ----------------------------------------------------------------
\* the positions of the sRGB formats in a list
SrgbPositions(fs) == {i \in 1..Len(fs) : is_srgb(fs[i])}

\* C17: the format of the stored configuration is the supported format at
\* the least position holding an sRGB format if there is one, otherwise
\* the first supported format; it is always one of the supported formats.
C17_FormatSelection ==
    /\ \E i \in 1..Len(surface_caps.formats) : config.format = surface_caps.formats[i]
    /\ IF SrgbPositions(surface_caps.formats) # {}
       THEN \E i \in SrgbPositions(surface_caps.formats) :
               /\ \A j \in SrgbPositions(surface_caps.formats) : i <= j
               /\ config.format = surface_caps.formats[i]
       ELSE config.format = surface_caps.formats[1]

C17_Witness ==
    /\ Len(surface_caps.formats) = 2
    /\ ~is_srgb(surface_caps.formats[1])
    /\ surface_caps.formats[2] = "Rgba8UnormSrgb"
    /\ config.format = "Rgba8UnormSrgb"

\* ---- C18 ----------------------------------------------------------------
\* C18: in every state the stored configuration's width and height are the
\* last size with both dimensions non-zero that was passed to
\* resize_surface, or the window's first size if there was none yet.
C18_ConfigTracksLastValidSize ==
    SizeOf(config) = last_valid_size

C18_Witness ==
    /\ LastOwnResized
    /\ ~Positive(last.event.size)
    /\ last_valid_size = [width |-> 1, height |-> 2]
    /\ SizeOf(config) = [width |-> 1, height |-> 2]
    /\ nEvents >= 2

\* ---- C19 ----------------------------------------------------------------
\* C19: between handlers the configuration last passed to
\* surface.configure is the stored configuration.
C19_SurfaceMatchesStore ==
    surface = config

C19_Witness ==
    /\ LastOwnResized
    /\ last.event.size = [width |-> 1, height |-> 1]
    /\ Count(last.trace, "configure") = 1
    /\ SizeOf(surface) = [width |-> 1, height |-> 1]
    /\ surface = config

\* ---- C20 ----------------------------------------------------------------
\* C20: an AboutToWait whose get_current_texture returns Lost while
\* window.inner_size() has a zero dimension does not call
\* surface.configure, leaves the stored configuration and the surface's
\* configuration as they were, and leaves the loop Running, so that the
\* next AboutToWait acquires again.
C20_LostWhileMinimized ==
    [][last'.event.kind = "AboutToWait" /\ last'.event.outcome = "Lost"
          /\ ~Positive(inner_size')
        => /\ Count(last'.trace, "configure") = 0
           /\ config' = config
           /\ surface' = surface
           /\ loop_state' = "Running"
           /\ ~last'.exit]_vars

C20_Witness ==
    /\ LastTickWith("Lost")
    /\ ~Positive(inner_size)
    /\ Positive(SizeOf(config))
    /\ Count(last.trace, "configure") = 0
    /\ loop_state = "Running"
    /\ nEvents < MaxEvents

====
